---- MODULE Spec2Model ----
(***************************************************************************)
(* Battery models, feasibility simulator, capacity sizers, incremental     *)
(* capacity finder and coverage estimator of src/src/battery.py.           *)
(*                                                                         *)
(* Numbers.  The program computes with Python floats, IEEE 754 binary64,   *)
(* and so does the model: a quantity is a record of sign, exponent and     *)
(* 53-bit significand, and Add, Sub, Mul and Div give the double nearest   *)
(* to the exact result, ties to even.  A decimal literal of the program    *)
(* (0.98, 1.05, 0.1) is the double nearest to it, Dec.  Python integers    *)
(* (the 0 of Battery(0, 0), l = 0) are the doubles of the same value; the  *)
(* two zeros of the format compare equal and are one value here.  No       *)
(* quantity of the model comes near the largest or the smallest double, so *)
(* the exponent is not limited.                                            *)
(***************************************************************************)
EXTENDS Integers, Sequences, FiniteSets, TLC

VARIABLES
    df_ren,          \* renewable series (argument)
    df_dc_pow,       \* facility draw series, column avg_dc_power_mw (argument)
    max_bsize,       \* sizer argument
    b,               \* the battery object of the running function
    b0,              \* that battery as it was constructed (history)
    i,               \* loop index of the running function
    pc,              \* position in the running function
    ret,             \* value returned by the last call / by the function
    l, u, med,       \* locals of the binary-search sizers
    battery_cap,     \* local of calculate_247_battery_capacity
    daily_net_load,  \* local of calculate_247_battery_capacity
    tot_non_ren_mw,  \* local of apply_battery
    op,              \* the last call made, or the last row read (history)
    window,          \* the 72-step window being read (history)
    run2             \* a second run of sim_battery_247 on the same series

vars == <<df_ren, df_dc_pow, max_bsize, b, b0, i, pc, ret, l, u, med,
          battery_cap, daily_net_load, tot_non_ren_mw, op, window, run2>>

-----------------------------------------------------------------------------
(* Floating-point arithmetic *)

\* a finite double is (hi * 2^28 + lo) * 2^exp, negated if neg, with
\* 2^24 <= hi < 2^25 and 0 <= lo < 2^28; zero has hi = lo = 0
Word == 2^28

Limb == 2^14

Zero == [neg |-> FALSE, exp |-> 0, hi |-> 0, lo |-> 0]

\* The float not-a-number, None, and a local that was never assigned: three
\* values that are no quantity (their exponent is above that of any double).
NaN == [neg |-> FALSE, exp |-> 1024, hi |-> 1, lo |-> 0]

None == [neg |-> FALSE, exp |-> 1025, hi |-> 0, lo |-> 0]

Unbound == [neg |-> FALSE, exp |-> 1026, hi |-> 0, lo |-> 0]

\* a natural number below 2^112 is four words, the most significant first;
\* the shifts move it by q words and by r < 28 bits
ShiftWordsLeft(w, q) ==
    IF q = 0 THEN w
    ELSE IF q = 1 THEN <<w[2], w[3], w[4], 0>>
    ELSE IF q = 2 THEN <<w[3], w[4], 0, 0>>
    ELSE IF q = 3 THEN <<w[4], 0, 0, 0>>
    ELSE <<0, 0, 0, 0>>

ShiftWordsRight(w, q) ==
    IF q = 0 THEN w
    ELSE IF q = 1 THEN <<0, w[1], w[2], w[3]>>
    ELSE IF q = 2 THEN <<0, 0, w[1], w[2]>>
    ELSE IF q = 3 THEN <<0, 0, 0, w[1]>>
    ELSE <<0, 0, 0, 0>>

ShiftBitsLeft(w, r) ==
    IF r = 0 THEN w
    ELSE LET keep == 2^(28 - r)
             up(x) == (x % keep) * 2^r
             dn(x) == x \div keep
         IN  <<up(w[1]) + dn(w[2]), up(w[2]) + dn(w[3]),
               up(w[3]) + dn(w[4]), up(w[4])>>

ShiftBitsRight(w, r) ==
    IF r = 0 THEN w
    ELSE LET cut == 2^r
             up(x) == (x % cut) * 2^(28 - r)
             dn(x) == x \div cut
         IN  <<dn(w[1]), up(w[1]) + dn(w[2]), up(w[2]) + dn(w[3]),
               up(w[3]) + dn(w[4])>>

ShiftRight(w, d) == ShiftBitsRight(ShiftWordsRight(w, d \div 28), d % 28)

\* carries: the digits s[1] .. s[k] of a number in the given base, each
\* possibly negative or above the base, brought into 0 .. base - 1 from the
\* least significant s[k] up; what is carried out of s[1] is dropped
RECURSIVE Propagate(_, _, _, _)
Propagate(s, k, carry, base) ==
    IF k = 0 THEN s
    ELSE Propagate([s EXCEPT ![k] = (s[k] + carry) % base], k - 1,
                   (s[k] + carry) \div base, base)

\* x + y below 2^112
AddWords(x, y) ==
    Propagate(<<x[1] + y[1], x[2] + y[2], x[3] + y[3], x[4] + y[4]>>, 4, 0, Word)

\* x - y for x >= y
SubWords(x, y) ==
    Propagate(<<x[1] - y[1], x[2] - y[2], x[3] - y[3], x[4] - y[4]>>, 4, 0, Word)

\* the number of leading zero bits of a word 0 < x < 2^28
LeadingZeros(x) == CHOOSE t \in 0..27 : 2^(27 - t) <= x /\ x < 2^(28 - t)

\* the number of leading zero words of n # 0
LeadingWords(n) ==
    IF n[1] # 0 THEN 0 ELSE IF n[2] # 0 THEN 1 ELSE IF n[3] # 0 THEN 2 ELSE 3

\* the double of sign neg, exponent ex and significand hi, lo, where the
\* rounding may have carried lo to 2^28 and with it hi to 2^25
Pack(neg, ex, hi, lo) ==
    IF hi + lo \div Word = 2^25
    THEN [neg |-> neg, exp |-> ex + 1, hi |-> 2^24, lo |-> 0]
    ELSE [neg |-> neg, exp |-> ex, hi |-> hi + lo \div Word, lo |-> lo % Word]

\* w has its leading bit at the top of w[1]: 53 bits are kept, the next is
\* the rounding bit and the rest is sticky; round to nearest, ties to even
RoundBits(neg, ex, w) ==
    Pack(neg, ex, w[1] \div 8,
         (w[1] % 8) * 2^25 + w[2] \div 8
         + (IF /\ (w[2] \div 4) % 2 = 1
               /\ \/ w[2] % 4 # 0 \/ w[3] # 0 \/ w[4] # 0
                  \/ (w[2] \div 8) % 2 = 1
            THEN 1 ELSE 0))

\* m # 0 has its leading bit in m[1]
RoundWords(neg, e, m) ==
    RoundBits(neg, e - LeadingZeros(m[1]) + 59, ShiftBitsLeft(m, LeadingZeros(m[1])))

\* rounding: the double nearest to n * 2^e, ties to even, n given as four words
RoundPack(neg, e, n) ==
    IF n = <<0, 0, 0, 0>> THEN Zero
    ELSE RoundWords(neg, e - 28 * LeadingWords(n), ShiftWordsLeft(n, LeadingWords(n)))

\* the integer n as a double, |n| < 2^28
FromInt(n) ==
    RoundPack(n < 0, 0, <<0, 0, 0, IF n < 0 THEN 0 - n ELSE n>>)

IsZero(x) == x.hi = 0

\* |x| < |y|
MagLess(x, y) ==
    IF IsZero(y) THEN FALSE
    ELSE IF IsZero(x) THEN TRUE
    ELSE IF x.exp # y.exp THEN x.exp < y.exp
    ELSE IF x.hi # y.hi THEN x.hi < y.hi
    ELSE x.lo < y.lo

\* x < y; a comparison with nan is False
Lt(x, y) ==
    IF x = NaN \/ y = NaN THEN FALSE
    ELSE IF x.neg /\ ~y.neg THEN TRUE
    ELSE IF ~x.neg /\ y.neg THEN FALSE
    ELSE IF x.neg THEN MagLess(y, x)
    ELSE MagLess(x, y)

Gt(x, y) == Lt(y, x)

Le(x, y) == IF x = NaN \/ y = NaN THEN FALSE ELSE ~Lt(y, x)

Ge(x, y) == Le(y, x)

\* -x
Neg(x) == IF x = NaN \/ IsZero(x) THEN x ELSE [x EXCEPT !.neg = ~x.neg]

\* x + y for |x| >= |y|, y given as the words ny aligned to x; the result
\* takes the sign of x, and the exact sum is rounded once
AddAligned(x, minus, ny) ==
    RoundPack(x.neg, x.exp - 56,
              IF minus THEN SubWords(<<x.hi, x.lo, 0, 0>>, ny)
              ELSE AddWords(<<x.hi, x.lo, 0, 0>>, ny))

\* x + y for |x| >= |y|; a y below a quarter of the last place of x leaves x
\* as it is
AddMag(x, y) ==
    IF IsZero(y) \/ x.exp - y.exp > 56 THEN x
    ELSE AddAligned(x, x.neg # y.neg,
                    ShiftRight(<<y.hi, y.lo, 0, 0>>, x.exp - y.exp))

\* x + y
Add(x, y) ==
    IF x = NaN \/ y = NaN THEN NaN
    ELSE IF IsZero(x) THEN y
    ELSE AddMag(IF MagLess(x, y) THEN y ELSE x, IF MagLess(x, y) THEN x ELSE y)

\* x - y
Sub(x, y) == Add(x, Neg(y))

\* a significand as four limbs of 14 bits, the most significant first
Limbs(x) == <<x.hi \div Limb, x.hi % Limb, x.lo \div Limb, x.lo % Limb>>

\* eight limbs as four words
LimbsToWords(p) ==
    <<p[1] * Limb + p[2], p[3] * Limb + p[4], p[5] * Limb + p[6], p[7] * Limb + p[8]>>

\* the product of two significands given in limbs: the columns of the long
\* multiplication, then the carries
MulLimbs(a, c) ==
    Propagate(<<0,
                a[1] * c[1],
                a[1] * c[2] + a[2] * c[1],
                a[1] * c[3] + a[2] * c[2] + a[3] * c[1],
                a[1] * c[4] + a[2] * c[3] + a[3] * c[2] + a[4] * c[1],
                a[2] * c[4] + a[3] * c[3] + a[4] * c[2],
                a[3] * c[4] + a[4] * c[3],
                a[4] * c[4]>>, 8, 0, Limb)

\* the product of two significands, as four words
MulWords(x, y) == LimbsToWords(MulLimbs(Limbs(x), Limbs(y)))

\* x * y
Mul(x, y) ==
    IF x = NaN \/ y = NaN THEN NaN
    ELSE IF IsZero(x) \/ IsZero(y) THEN Zero
    ELSE RoundPack(x.neg # y.neg, x.exp + y.exp, MulWords(x, y))

LimbsGe(x, y) ==
    IF x[1] # y[1] THEN x[1] > y[1]
    ELSE IF x[2] # y[2] THEN x[2] > y[2]
    ELSE IF x[3] # y[3] THEN x[3] > y[3]
    ELSE x[4] >= y[4]

\* x - y modulo 2^56
LimbsSub(x, y) ==
    Propagate(<<x[1] - y[1], x[2] - y[2], x[3] - y[3], x[4] - y[4]>>, 4, 0, Limb)

\* q * d modulo 2^56
LimbsTimes(q, d) ==
    Propagate(<<q * d[1], q * d[2], q * d[3], q * d[4]>>, 4, 0, Limb)

\* long division in base 2^14, its state the digits found and the remainder
\* left, below the divisor d.  A digit found: q or q + 1, whichever leaves a
\* remainder t below d
DivDigit(digits, q, t, d) ==
    IF LimbsGe(t, d) THEN <<Append(digits, q + 1), LimbsSub(t, d)>>
    ELSE <<Append(digits, q), t>>

\* the digit estimated as q, and the remainder it leaves
DivTry(s, d, q) ==
    DivDigit(s[1], q, LimbsSub(<<s[2][2], s[2][3], s[2][4], 0>>, LimbsTimes(q, d)), d)

\* one step: the next digit (r * 2^14) \div d for the remainder r = s[2]; it
\* is estimated from the leading bits of r and d, from below and by at most
\* one
DivStep(s, d) ==
    DivTry(s, d, (s[2][1] * 2^19 + s[2][2] * 2^5 + s[2][3] \div 2^9)
                 \div (d[1] * 2^5 + d[2] \div 2^9 + 1))

\* k steps
RECURSIVE LongDiv(_, _, _)
LongDiv(s, d, k) == IF k = 0 THEN s ELSE LongDiv(DivStep(s, d), d, k - 1)

\* the quotient as four words: the leading bit, four digits of 14 bits and
\* a last bit that says whether a remainder is left
QuotientWords(first, s) ==
    <<0,
      s[1][1] \div 2^13 + first * 2,
      (s[1][1] % 2^13) * 2^15 + s[1][2] * 2 + s[1][3] \div 2^13,
      (s[1][3] % 2^13) * 2^15 + s[1][4] * 2
          + (IF s[2] = <<0, 0, 0, 0>> THEN 0 ELSE 1)>>

\* n / d for significands in limbs: 57 bits of the quotient
DivLimbs(n, d) ==
    QuotientWords(IF LimbsGe(n, d) THEN 1 ELSE 0,
                  LongDiv(<< <<>>, IF LimbsGe(n, d) THEN LimbsSub(n, d) ELSE n >>, d, 4))

\* x / y for y # 0
Div(x, y) ==
    IF x = NaN \/ y = NaN THEN NaN
    ELSE IF IsZero(x) THEN Zero
    ELSE RoundPack(x.neg # y.neg, x.exp - y.exp - 57, DivLimbs(Limbs(x), Limbs(y)))

\* the decimal literal n/d, d a power of ten: the double nearest to it
Dec(n, d) == Div(FromInt(n), FromInt(d))

\* Python's min(x, y): y if y < x, else x
Min(x, y) == IF Lt(y, x) THEN y ELSE x

\* max(x, y) of two quantities
Max(x, y) == IF Gt(y, x) THEN y ELSE x

\* Python's x != y on floats: any comparison with nan is unequal
PyNe(x, y) == IF x = NaN \/ y = NaN THEN TRUE ELSE x # y

\* Python's max(x, y): y if y > x, else x; a comparison with nan is False
PyMax(x, y) == IF Gt(y, x) THEN y ELSE x

\* the doubles 1 and 2
One ==
    [neg |-> FALSE, exp |-> -52, hi |-> 16777216, lo |-> 0]

Two ==
    [neg |-> FALSE, exp |-> -51, hi |-> 16777216, lo |-> 0]

\* the default coefficients of Battery2, each the double nearest to its
\* literal: 0.98, 1.05, -0.125, 0.05
EffC ==
    [neg |-> FALSE, exp |-> -53, hi |-> 32883343, lo |-> 96636764]

EffD ==
    [neg |-> FALSE, exp |-> -52, hi |-> 17616076, lo |-> 214748365]

UpperU ==
    [neg |-> TRUE, exp |-> -55, hi |-> 16777216, lo |-> 0]

LowerU ==
    [neg |-> FALSE, exp |-> -57, hi |-> 26843545, lo |-> 161061274]

\* a search that stops at an interval of 0.5
Tolerance_loose ==
    [neg |-> FALSE, exp |-> -53, hi |-> 16777216, lo |-> 0]

\* the tolerance 0.1 of the binary search
Tolerance ==
    [neg |-> FALSE, exp |-> -56, hi |-> 26843545, lo |-> 161061274]

\* the step 0.1 by which Battery2.find_and_init_capacity grows the capacity
Tenth ==
    [neg |-> FALSE, exp |-> -56, hi |-> 26843545, lo |-> 161061274]

-----------------------------------------------------------------------------
(* Bounds of the model *)

\* renewable supply is 0 or MaxVal MWh a step
MaxVal == 1

\* series hold at most MaxLen steps
MaxLen == 3

\* capacities of the batteries driven directly are 0 .. MaxCap half-MWh
MaxCap == 4

\* a battery object is driven through at most MaxCalls calls
MaxCalls == 3

\* 0.5
Half ==
    [neg |-> FALSE, exp |-> -53, hi |-> 16777216, lo |-> 0]

\* k half-MWh
Halves(k) == Mul(FromInt(k), Half)

Vals == {Zero, FromInt(MaxVal)}

\* the draw of a step: a whole number of MWh, or 0.1 MWh, which no double
\* holds exactly
Draws == Vals \cup {Tenth}

\* the amounts charged and discharged: 0, 0.1, 0.5 and MaxVal MWh
Loads == {Zero, Tenth, Half, FromInt(MaxVal)}

Caps == {Halves(k) : k \in 0..MaxCap}

\* search bounds of the sizers: 0, the tolerance, 0.5, 0.8 and
\* 2, 4, .. 2*MaxBsize MWh
MaxBsize == 3

Bsizes ==
    {Zero, Tolerance, Half, Dec(8, 10)} \cup {FromInt(2 * k) : k \in 1..MaxBsize}
-----------------------------------------------------------------------------
(* class Battery: lossless *)

Battery(capacity, current_load) ==
    [kind |-> "Battery", capacity |-> capacity, current_load |-> current_load]

\* Battery.charge without the clamp to capacity
Battery_charge_unclamped(self, input_load) ==
    LET sum == Add(self.current_load, input_load)
    IN  [b |-> [self EXCEPT !.current_load = sum], ret |-> sum]

\* Battery.charge storing only 98% of the input
Battery_charge_lossy(self, input_load) ==
    LET sum == Add(self.current_load, Mul(EffC, input_load))
        new == IF Gt(sum, self.capacity) THEN self.capacity ELSE sum
    IN  [b |-> [self EXCEPT !.current_load = new], ret |-> new]

\* each method yields the object after the call and the returned value
Battery_charge(self, input_load) ==
    LET sum == Add(self.current_load, input_load)
        new == IF Gt(sum, self.capacity) THEN self.capacity ELSE sum
    IN  [b |-> [self EXCEPT !.current_load = new], ret |-> new]

\* Battery.discharge with the operands of the difference swapped
Battery_discharge_swapped(self, output_load) ==
    LET diff == Sub(output_load, self.current_load)
    IN  IF Lt(diff, Zero)
        THEN [b |-> [self EXCEPT !.current_load = Zero],
              ret |-> Add(output_load, diff)]
        ELSE [b |-> [self EXCEPT !.current_load = diff], ret |-> output_load]

\* Battery.discharge reporting the request as delivered whatever the load
Battery_discharge_unreported(self, output_load) ==
    LET diff == Sub(self.current_load, output_load)
    IN  [b |-> [self EXCEPT !.current_load = IF Lt(diff, Zero) THEN Zero ELSE diff],
         ret |-> output_load]

Battery_discharge(self, output_load) ==
    LET diff == Sub(self.current_load, output_load)
    IN  IF Lt(diff, Zero)
        THEN [b |-> [self EXCEPT !.current_load = Zero],
              ret |-> Add(output_load, diff)]
        ELSE [b |-> [self EXCEPT !.current_load = diff], ret |-> output_load]

Battery_is_full(self) == self.capacity = self.current_load

Battery_find_and_init_capacity(self, input_load) ==
    [b |-> [self EXCEPT !.capacity = Add(self.capacity, input_load)],
     ret |-> None]

-----------------------------------------------------------------------------
(* class Battery2: efficiency losses and linear rate limits *)

\* the constructor with its default coefficients (lithium NMC cell)
Battery2(capacity, current_load) ==
    [kind |-> "Battery2", capacity |-> capacity, current_load |-> current_load,
     eff_c |-> EffC, eff_d |-> EffD,
     upper_lim_u |-> UpperU, upper_lim_v |-> One,
     lower_lim_u |-> LowerU, lower_lim_v |-> Zero]

calc_max_charge(self) ==
    Min(Div(self.capacity, self.eff_c),
        Div(Sub(Mul(self.upper_lim_v, self.capacity), self.current_load),
            Sub(self.eff_c, self.upper_lim_u)))

\* calc_max_discharge without the rate limit drawn from current_load
calc_max_discharge_norate(self) == Div(self.capacity, self.eff_d)

calc_max_discharge(self) ==
    Min(Div(self.capacity, self.eff_d),
        Div(Sub(self.current_load, Mul(self.lower_lim_v, self.capacity)),
            Add(self.lower_lim_u, self.eff_d)))

Battery2_charge(self, input_load) ==
    LET max_charge == calc_max_charge(self)
        new == Add(self.current_load,
                   Mul(Min(max_charge, input_load), self.eff_c))
    IN  [b |-> [self EXCEPT !.current_load = new], ret |-> new]

\* Battery2.discharge returning the limit whether or not it is below the request
Battery2_discharge_limit(self, output_load) ==
    LET max_discharge == calc_max_discharge(self)
        new == Sub(self.current_load,
                   Mul(Min(max_discharge, output_load), self.eff_d))
    IN  [b |-> [self EXCEPT !.current_load = new], ret |-> max_discharge]

\* Battery2.discharge reporting the request as delivered whatever the limit
Battery2_discharge_unreported(self, output_load) ==
    LET max_discharge == calc_max_discharge(self)
        new == Sub(self.current_load,
                   Mul(Min(max_discharge, output_load), self.eff_d))
    IN  [b |-> [self EXCEPT !.current_load = new], ret |-> output_load]

Battery2_discharge(self, output_load) ==
    LET max_discharge == calc_max_discharge(self)
        new == Sub(self.current_load,
                   Mul(Min(max_discharge, output_load), self.eff_d))
    IN  [b |-> [self EXCEPT !.current_load = new],
         ret |-> IF Lt(max_discharge, output_load) THEN max_discharge
                 ELSE output_load]

Battery2_is_full(self) == self.capacity = self.current_load

\* the while loop of find_and_init_capacity: capacity and the accumulator
\* new_capacity grow by 0.1 until the rate check passes
RECURSIVE find_capacity_loop(_, _, _)
find_capacity_loop(self, new_capacity, input_load) ==
    LET power_lim == Div(Sub(new_capacity, Mul(self.lower_lim_v, self.capacity)),
                         Add(self.lower_lim_u, self.eff_d))
    IN  IF Lt(power_lim, input_load)
        THEN find_capacity_loop(
                 [self EXCEPT !.capacity = Add(self.capacity, Tenth)],
                 Add(new_capacity, Tenth), input_load)
        ELSE self

Battery2_find_and_init_capacity(self, input_load) ==
    LET grown == [self EXCEPT !.capacity =
                      Add(self.capacity, Mul(input_load, self.eff_d))]
    IN  [b |-> find_capacity_loop(grown, Mul(input_load, self.eff_d), input_load),
         ret |-> None]

-----------------------------------------------------------------------------
(* The capability set shared by both models (duck typing) *)

charge(self, input_load) ==
    IF self.kind = "Battery" THEN Battery_charge(self, input_load)
    ELSE Battery2_charge(self, input_load)

discharge(self, output_load) ==
    IF self.kind = "Battery" THEN Battery_discharge(self, output_load)
    ELSE Battery2_discharge(self, output_load)

is_full(self) ==
    IF self.kind = "Battery" THEN Battery_is_full(self) ELSE Battery2_is_full(self)

find_and_init_capacity(self, input_load) ==
    IF self.kind = "Battery" THEN Battery_find_and_init_capacity(self, input_load)
    ELSE Battery2_find_and_init_capacity(self, input_load)

-----------------------------------------------------------------------------
(* A battery object driven by an arbitrary caller: any sequence of calls *)

\* a call as the history keeps it: the method, its argument, and the lossless
\* battery's current_load and capacity before it
NoPrev == [name |-> "none", arg |-> Zero, before |-> Zero, capacity |-> Zero]

\* op is the last call and op.prev the call before it
NoCall == [name |-> "none", arg |-> Zero, before |-> Zero, capacity |-> Zero,
           prev |-> NoPrev]

\* the variables a specification does not use
NoSeries == df_ren = <<>> /\ df_dc_pow = <<>>

NoSizer == max_bsize = Zero /\ l = Zero /\ u = Zero /\ med = Unbound

NoWindow == [sum |-> Zero, negative |-> 0]

NoFinder == battery_cap = Zero /\ daily_net_load = Zero /\ window = NoWindow

NoApply == tot_non_ren_mw = Zero

NoRun2 == run2 = [b |-> Battery(Zero, Zero), failed |-> FALSE]

InitBattery ==
    /\ b \in {Battery(c, cl) : c \in Caps, cl \in Caps}
    /\ Le(Zero, b.current_load) /\ Le(b.current_load, b.capacity)
    /\ b0 = b
    /\ pc = "object" /\ i = 0 /\ ret = None /\ op = NoCall
    /\ NoSeries /\ NoSizer /\ NoFinder /\ NoApply /\ NoRun2

InitBattery2 ==
    /\ b \in {Battery2(c, cl) : c \in Caps, cl \in Caps}
    /\ Le(Zero, b.current_load) /\ Le(b.current_load, b.capacity)
    /\ b0 = b
    /\ pc = "object" /\ i = 0 /\ ret = None /\ op = NoCall
    /\ NoSeries /\ NoSizer /\ NoFinder /\ NoApply /\ NoRun2

\* op.before and op.capacity are the battery's current_load and capacity
\* before the call; of a Battery2 the history keeps them for the calls of
\* find_and_init_capacity only
Called(name, x, r) ==
    /\ b' = r.b
    /\ ret' = r.ret
    /\ op' = IF b.kind = "Battery"
             THEN [name |-> name, arg |-> x, before |-> b.current_load,
                   capacity |-> b.capacity,
                   prev |-> [name |-> op.name, arg |-> op.arg,
                             before |-> op.before, capacity |-> op.capacity]]
             ELSE IF name = "find_and_init_capacity"
             THEN [name |-> name, arg |-> x, before |-> b.current_load,
                   capacity |-> b.capacity, prev |-> NoPrev]
             ELSE IF op.name = "find_and_init_capacity"
             THEN [name |-> name, arg |-> x, before |-> Zero, capacity |-> Zero,
                   prev |-> [name |-> op.name, arg |-> op.arg,
                             before |-> op.before, capacity |-> op.capacity]]
             ELSE [name |-> name, arg |-> x, before |-> Zero, capacity |-> Zero,
                   prev |-> NoPrev]
    /\ i' = i + 1
    /\ UNCHANGED <<df_ren, df_dc_pow, max_bsize, b0, pc, l, u, med,
                   battery_cap, daily_net_load, tot_non_ren_mw, window,
                   run2>>

\* i counts the calls made
CallAllowed == pc = "object" /\ i < MaxCalls

CallCharge ==
    \E x \in Loads : CallAllowed /\ Called("charge", x, charge(b, x))

CallDischarge ==
    \E x \in Loads : CallAllowed /\ Called("discharge", x, discharge(b, x))

\* capacity grows without limit in the program; the model stops at MaxCap MWh
CallFindAndInitCapacity ==
    \E x \in Loads :
        /\ CallAllowed
        /\ Le(Add(b.capacity, x), FromInt(MaxCap))
        /\ Called("find_and_init_capacity", x, find_and_init_capacity(b, x))

NextBattery == CallCharge \/ CallDischarge \/ CallFindAndInitCapacity

SpecBattery == InitBattery /\ [][NextBattery]_vars

NextBattery2 == CallCharge \/ CallDischarge

SpecBattery2 == InitBattery2 /\ [][NextBattery2]_vars

\* a Battery2 driven through all three methods
SpecBattery2Grow == InitBattery2 /\ [][NextBattery]_vars

-----------------------------------------------------------------------------
(* Input series *)

\* the examples of the specification: renewable, draw
Example8 == << <<FromInt(10), FromInt(0), FromInt(10)>>,
              <<FromInt(5), FromInt(5), FromInt(5)>> >>

Example9 == << <<FromInt(0), FromInt(0), FromInt(0)>>,
              <<FromInt(1), FromInt(1), FromInt(1)>> >>

\* draws whose running sums are rounded: 0.3 + 0.3 + 0.3 + 0.1 is
\* 0.9999999999999999 in doubles
RoundedDraws ==
    << <<FromInt(0), FromInt(0), FromInt(0), FromInt(0)>>,
       <<Dec(3, 10), Dec(3, 10), Dec(3, 10), Dec(1, 10)>> >>

\* a deficit covered in part, a second one covered in part, a surplus, and a
\* deficit covered in full
CoveredLate ==
    << <<FromInt(0), FromInt(0), FromInt(1), FromInt(0)>>,
       <<Dec(1, 10), FromInt(1), FromInt(0), Dec(1, 10)>> >>

\* aligned pairs of series of the same length, at most MaxLen steps
SeriesPairs ==
    UNION {[1..n -> Vals] \X [1..n -> Draws] : n \in 0..MaxLen}
        \cup {Example8, Example9, RoundedDraws, CoveredLate}

-----------------------------------------------------------------------------
(* sim_battery_247 *)

\* the loop body with "<" replaced by "<=": an exact discharge counts as failed
sim_step_strict(bat, ren_mw, df_dc) ==
    LET net_load == Sub(ren_mw, df_dc)
        r == discharge(bat, Neg(net_load))
    IN  IF Gt(net_load, Zero)
        THEN [b |-> charge(bat, net_load).b, failed |-> FALSE]
        ELSE [b |-> r.b, failed |-> Le(r.ret, Neg(net_load))]

\* the loop body handing the battery back untouched when the discharge fell short
sim_step_rollback(bat, ren_mw, df_dc) ==
    LET net_load == Sub(ren_mw, df_dc)
        r == discharge(bat, Neg(net_load))
    IN  IF Gt(net_load, Zero)
        THEN [b |-> charge(bat, net_load).b, failed |-> FALSE]
        ELSE IF Lt(r.ret, Neg(net_load))
             THEN [b |-> bat, failed |-> TRUE]
             ELSE [b |-> r.b, failed |-> FALSE]

\* the loop body for one step: the battery after it, and whether it returns False
sim_step(bat, ren_mw, df_dc) ==
    LET net_load == Sub(ren_mw, df_dc)
        r == discharge(bat, Neg(net_load))
    IN  IF Gt(net_load, Zero)
        THEN [b |-> charge(bat, net_load).b, failed |-> FALSE]
        ELSE [b |-> r.b, failed |-> Lt(r.ret, Neg(net_load))]

\* the loop from step k (0-based) on: the returned value, the battery left
\* behind and the step at which the loop ended
RECURSIVE sim_from(_, _, _, _)

\* the loop once step k has been taken with the outcome s
sim_after(ren, dc, s, k) ==
    IF s.failed
    THEN [ret |-> FALSE, b |-> s.b, i |-> k]
    ELSE sim_from(ren, dc, s.b, k + 1)

sim_from(ren, dc, bat, k) ==
    IF k >= Len(dc)
    THEN [ret |-> TRUE, b |-> bat, i |-> k]
    ELSE sim_after(ren, dc, sim_step(bat, ren[k + 1], dc[k + 1]), k)

sim_battery_247(ren, dc, bat) == sim_from(ren, dc, bat, 0).ret

\* the simulator run step by step on a battery handed in by the caller
InitSim ==
    /\ \E sp \in SeriesPairs : df_ren = sp[1] /\ df_dc_pow = sp[2]
    /\ \E c \in Caps : \E cl \in {x \in Caps : Le(x, c)} :
           b \in {Battery(c, cl), Battery2(c, cl)}
    /\ b0 = b
    /\ pc = "sim" /\ i = 0 /\ ret = None /\ op = NoCall
    /\ NoSizer /\ NoFinder /\ NoApply /\ NoRun2

SimUnchanged ==
    UNCHANGED <<df_ren, df_dc_pow, max_bsize, b0, l, u, med, battery_cap,
                daily_net_load, tot_non_ren_mw, op, window, run2>>

SimCharge ==
    /\ pc = "sim" /\ i < Len(df_dc_pow)
    /\ Gt(Sub(df_ren[i + 1], df_dc_pow[i + 1]), Zero)
    /\ b' = sim_step(b, df_ren[i + 1], df_dc_pow[i + 1]).b
    /\ i' = i + 1
    /\ UNCHANGED <<pc, ret>> /\ SimUnchanged

SimDischarge ==
    /\ pc = "sim" /\ i < Len(df_dc_pow)
    /\ ~Gt(Sub(df_ren[i + 1], df_dc_pow[i + 1]), Zero)
    /\ ~sim_step(b, df_ren[i + 1], df_dc_pow[i + 1]).failed
    /\ b' = sim_step(b, df_ren[i + 1], df_dc_pow[i + 1]).b
    /\ i' = i + 1
    /\ UNCHANGED <<pc, ret>> /\ SimUnchanged

SimFail ==
    /\ pc = "sim" /\ i < Len(df_dc_pow)
    /\ ~Gt(Sub(df_ren[i + 1], df_dc_pow[i + 1]), Zero)
    /\ sim_step(b, df_ren[i + 1], df_dc_pow[i + 1]).failed
    /\ b' = sim_step(b, df_ren[i + 1], df_dc_pow[i + 1]).b
    /\ ret' = FALSE /\ pc' = "done"
    /\ UNCHANGED i /\ SimUnchanged

SimReturn ==
    /\ pc = "sim" /\ i >= Len(df_dc_pow)
    /\ ret' = TRUE /\ pc' = "done"
    /\ UNCHANGED <<b, i>> /\ SimUnchanged

NextSim == SimCharge \/ SimDischarge \/ SimFail \/ SimReturn

SpecSim == InitSim /\ [][NextSim]_vars

-----------------------------------------------------------------------------
(* Two runs of sim_battery_247 on the same series, step by step side by side: *)
(* b is a fresh battery of some capacity started full, run2.b a fresh battery *)
(* of the same class and of no smaller capacity started full.  run2.failed    *)
(* tells that the second run has returned False; its battery then stays as    *)
(* that run left it.                                                          *)

InitPair ==
    /\ \E sp \in SeriesPairs : df_ren = sp[1] /\ df_dc_pow = sp[2]
    /\ \E c \in Caps : \E c2 \in {x \in Caps : Le(c, x)} :
           \/ b = Battery(c, c) /\ run2 = [b |-> Battery(c2, c2), failed |-> FALSE]
           \/ b = Battery2(c, c) /\ run2 = [b |-> Battery2(c2, c2), failed |-> FALSE]
    /\ b0 = b
    /\ pc = "pair" /\ i = 0 /\ ret = None /\ op = NoCall
    /\ NoSizer /\ NoFinder /\ NoApply

\* the second run after step i + 1 of the series
Run2After ==
    LET s == sim_step(run2.b, df_ren[i + 1], df_dc_pow[i + 1])
    IN  IF run2.failed THEN run2 ELSE [b |-> s.b, failed |-> s.failed]

PairUnchanged ==
    UNCHANGED <<df_ren, df_dc_pow, max_bsize, b0, l, u, med, battery_cap,
                daily_net_load, tot_non_ren_mw, op, window>>

\* a step the first run passes
PairStep ==
    /\ pc = "pair" /\ i < Len(df_dc_pow)
    /\ ~sim_step(b, df_ren[i + 1], df_dc_pow[i + 1]).failed
    /\ b' = sim_step(b, df_ren[i + 1], df_dc_pow[i + 1]).b
    /\ run2' = Run2After
    /\ i' = i + 1
    /\ UNCHANGED <<pc, ret>> /\ PairUnchanged

\* a step at which the first run returns False
PairFail ==
    /\ pc = "pair" /\ i < Len(df_dc_pow)
    /\ sim_step(b, df_ren[i + 1], df_dc_pow[i + 1]).failed
    /\ b' = sim_step(b, df_ren[i + 1], df_dc_pow[i + 1]).b
    /\ run2' = Run2After
    /\ ret' = FALSE /\ pc' = "done"
    /\ UNCHANGED i /\ PairUnchanged

\* the first run returns True
PairReturn ==
    /\ pc = "pair" /\ i >= Len(df_dc_pow)
    /\ ret' = TRUE /\ pc' = "done"
    /\ UNCHANGED <<b, i, run2>> /\ PairUnchanged

NextPair == PairStep \/ PairFail \/ PairReturn

SpecPair == InitPair /\ [][NextPair]_vars

-----------------------------------------------------------------------------
(* calculate_247_battery_capacity_b1_sim, calculate_247_battery_capacity_b2_sim *)

\* the two sizers differ only in the class of the fresh battery they build:
\* Battery(med, med) in b1_sim, Battery2(med, med) in b2_sim
Fresh(fn, c) == IF fn = "b1_sim" THEN Battery(c, c) ELSE Battery2(c, c)

InitSizer ==
    /\ \E sp \in SeriesPairs : df_ren = sp[1] /\ df_dc_pow = sp[2]
    /\ max_bsize \in Bsizes
    /\ op \in {[name |-> fn, arg |-> 0, l |-> Unbound, u |-> Unbound] :
                  fn \in {"b1_sim", "b2_sim"}}
    /\ b = Fresh(op.name, Zero) /\ b0 = b
    /\ pc = "zero_check" /\ i = 0 /\ ret = None
    /\ l = Unbound /\ u = Unbound /\ med = Unbound
    /\ NoFinder /\ NoApply /\ NoRun2

SizerUnchanged ==
    UNCHANGED <<df_ren, df_dc_pow, max_bsize, battery_cap, daily_net_load,
                tot_non_ren_mw, window, run2>>

\* a call of a sizer is followed through at most MaxSims simulations
MaxSims == 70

\* a simulation run on a fresh battery of capacity c has returned ok; op.arg
\* counts the simulations run, op.l and op.u are the interval the simulation
\* found (history)
SizerRan(c, ok, run) ==
    /\ op.arg < MaxSims
    /\ run.ret = ok
    /\ b0' = Fresh(op.name, c)
    /\ b' = run.b
    /\ i' = run.i
    /\ op' = [op EXCEPT !.arg = op.arg + 1, !.l = l, !.u = u]

\* a simulation of the series on a fresh battery of capacity c, started full,
\* that returns ok
SizerSim(c, ok) ==
    SizerRan(c, ok, sim_from(df_ren, df_dc_pow, Fresh(op.name, c), 0))

\* first check special case, no battery: it meets all demand, return 0
SizerZeroReturn ==
    /\ pc = "zero_check"
    /\ SizerSim(Zero, TRUE)
    /\ ret' = Zero /\ pc' = "done"
    /\ UNCHANGED <<l, u, med>> /\ SizerUnchanged

SizerZeroFails ==
    /\ pc = "zero_check"
    /\ SizerSim(Zero, FALSE)
    /\ l' = Zero /\ u' = max_bsize /\ pc' = "search"
    /\ UNCHANGED <<med, ret>> /\ SizerUnchanged

\* one iteration of the while loop, the midpoint feasible
SizerUpper ==
    /\ pc = "search" /\ Gt(Sub(u, l), Tolerance)
    /\ med' = Div(Add(u, l), Two)
    /\ SizerSim(med', TRUE)
    /\ u' = med'
    /\ UNCHANGED <<l, pc, ret>> /\ SizerUnchanged

\* one iteration of the while loop, the midpoint infeasible
SizerLower ==
    /\ pc = "search" /\ Gt(Sub(u, l), Tolerance)
    /\ med' = Div(Add(u, l), Two)
    /\ SizerSim(med', FALSE)
    /\ l' = med'
    /\ UNCHANGED <<u, pc, ret>> /\ SizerUnchanged

\* check if max size was too small
SizerReturnNaN ==
    /\ pc = "search" /\ ~Gt(Sub(u, l), Tolerance)
    /\ u = max_bsize
    /\ ret' = NaN /\ pc' = "done"
    /\ UNCHANGED <<b, b0, i, l, u, med, op>> /\ SizerUnchanged

\* the return without the check that the upper bound ever moved
SizerReturnMed_unchecked ==
    /\ pc = "search" /\ ~Gt(Sub(u, l), Tolerance)
    /\ ret' = med /\ pc' = "done"
    /\ UNCHANGED <<b, b0, i, l, u, med, op>> /\ SizerUnchanged

SizerReturnMed ==
    /\ pc = "search" /\ ~Gt(Sub(u, l), Tolerance)
    /\ u # max_bsize
    /\ ret' = med /\ pc' = "done"
    /\ UNCHANGED <<b, b0, i, l, u, med, op>> /\ SizerUnchanged

NextSizer ==
    \/ SizerZeroReturn \/ SizerZeroFails \/ SizerUpper \/ SizerLower
    \/ SizerReturnNaN \/ SizerReturnMed

SpecSizer == InitSizer /\ [][NextSizer]_vars

\* a draw of 2^56 MWh in one step, to be met from a battery of at most 2^57
\* MWh: numbers so large that neighbouring doubles lie 8 or 16 apart
TwoTo56 == Mul(FromInt(2^14), Mul(FromInt(2^21), FromInt(2^21)))

FarDraw == << <<Zero>>, <<TwoTo56>> >>

FarBound == Mul(FromInt(2), TwoTo56)

\* the sizers called with a bound of any size: the bounds of InitSizer on
\* the series of at most one step and on the examples, and the far bound on
\* the far draw
InitSizerAny ==
    /\ \/ /\ \E sp \in {s \in SeriesPairs : Len(s[1]) <= 1}
                          \cup {Example8, Example9} :
                 df_ren = sp[1] /\ df_dc_pow = sp[2]
          /\ max_bsize \in Bsizes
       \/ /\ df_ren = FarDraw[1] /\ df_dc_pow = FarDraw[2]
          /\ max_bsize = FarBound
    /\ op \in {[name |-> fn, arg |-> 0, l |-> Unbound, u |-> Unbound] :
                  fn \in {"b1_sim", "b2_sim"}}
    /\ b = Fresh(op.name, Zero) /\ b0 = b
    /\ pc = "zero_check" /\ i = 0 /\ ret = None
    /\ l = Unbound /\ u = Unbound /\ med = Unbound
    /\ NoFinder /\ NoApply /\ NoRun2

SpecSizerAny == InitSizerAny /\ [][NextSizer]_vars

-----------------------------------------------------------------------------
(* apply_battery *)

\* the loop body for one step: the battery and the uncovered total after it
apply_step(bat, tot, ren_mw, df_dc) ==
    LET gap == Sub(df_dc, ren_mw)
        r == discharge(bat, gap)
    IN  IF Gt(gap, Zero)
        THEN [b |-> r.b, tot |-> Sub(Add(tot, gap), r.ret)]
        ELSE [b |-> charge(bat, Neg(gap)).b, tot |-> tot]

InitApply ==
    /\ \E sp \in SeriesPairs : df_ren = sp[1] /\ df_dc_pow = sp[2]
    /\ \E battery_capacity \in Caps : b = Battery2(battery_capacity, battery_capacity)
    /\ b0 = b
    /\ tot_non_ren_mw = Zero
    /\ pc = "apply" /\ i = 0 /\ ret = None /\ op = NoCall
    /\ NoSizer /\ NoFinder /\ NoRun2

ApplyUnchanged ==
    UNCHANGED <<df_ren, df_dc_pow, max_bsize, b0, l, u, med, battery_cap,
                daily_net_load, op, window, run2>>

ApplyDischarge ==
    /\ pc = "apply" /\ i < Len(df_dc_pow)
    /\ Gt(Sub(df_dc_pow[i + 1], df_ren[i + 1]), Zero)
    /\ b' = apply_step(b, tot_non_ren_mw, df_ren[i + 1], df_dc_pow[i + 1]).b
    /\ tot_non_ren_mw' =
           apply_step(b, tot_non_ren_mw, df_ren[i + 1], df_dc_pow[i + 1]).tot
    /\ i' = i + 1
    /\ UNCHANGED <<pc, ret>> /\ ApplyUnchanged

ApplyCharge ==
    /\ pc = "apply" /\ i < Len(df_dc_pow)
    /\ ~Gt(Sub(df_dc_pow[i + 1], df_ren[i + 1]), Zero)
    /\ b' = apply_step(b, tot_non_ren_mw, df_ren[i + 1], df_dc_pow[i + 1]).b
    /\ tot_non_ren_mw' =
           apply_step(b, tot_non_ren_mw, df_ren[i + 1], df_dc_pow[i + 1]).tot
    /\ i' = i + 1
    /\ UNCHANGED <<pc, ret>> /\ ApplyUnchanged

ApplyReturn ==
    /\ pc = "apply" /\ i >= Len(df_dc_pow)
    /\ ret' = tot_non_ren_mw /\ pc' = "done"
    /\ UNCHANGED <<b, i, tot_non_ren_mw>> /\ ApplyUnchanged

NextApply == ApplyDischarge \/ ApplyCharge \/ ApplyReturn

SpecApply == InitApply /\ [][NextApply]_vars

-----------------------------------------------------------------------------
(* calculate_247_battery_capacity *)

\* the infeasibility check runs every WindowLen steps
WindowLen == 72

\* the series is read row by row up to MaxRows rows, and a row differs from
\* the row before it only at a multiple of BlockLen
MaxRows == 146

BlockLen == 12

\* the deficit branch growing a drained battery by the whole deficit
finder_deficit_whole(bat, ren_mw, df_dc) ==
    IF bat.capacity = Zero \/ bat.current_load = Zero
    THEN Battery_find_and_init_capacity(bat, Sub(df_dc, ren_mw)).b
    ELSE LET after == Battery_discharge(bat, Sub(df_dc, ren_mw)).b
         IN  IF after.current_load = Zero
             THEN Battery_find_and_init_capacity(after, Sub(df_dc, ren_mw)).b
             ELSE after

\* the deficit branch of the loop body
finder_deficit(bat, ren_mw, df_dc) ==
    IF bat.capacity = Zero
    THEN Battery_find_and_init_capacity(bat, Sub(df_dc, ren_mw)).b
    ELSE LET load_before == bat.current_load
             after == Battery_discharge(bat, Sub(df_dc, ren_mw)).b
             load_after == after.current_load
         IN  IF load_before = Zero
             THEN Battery_find_and_init_capacity(bat, Sub(df_dc, ren_mw)).b
             ELSE IF load_after = Zero
                  THEN Battery_find_and_init_capacity(
                           after, Sub(Sub(df_dc, ren_mw), load_before)).b
                  ELSE after

\* the surplus branch that never charges the battery
finder_surplus_spilled(bat, ren_mw, df_dc) ==
    IF Gt(bat.capacity, Zero) THEN bat
    ELSE IF Battery_is_full(bat) THEN Battery(Zero, Zero)
    ELSE bat

\* the surplus branch of the loop body
finder_surplus(bat, ren_mw, df_dc) ==
    IF Gt(bat.capacity, Zero) THEN Battery_charge(bat, Sub(ren_mw, df_dc)).b
    ELSE IF Battery_is_full(bat) THEN Battery(Zero, Zero)
    ELSE bat

\* the window check that never resets the accumulator
finder_step_noreset(bat, cap, net, idx, ren_mw, df_dc) ==
    LET net1 == Add(net, Sub(ren_mw, df_dc))
        b1 == IF Gt(df_dc, ren_mw) THEN finder_deficit(bat, ren_mw, df_dc)
              ELSE finder_surplus(bat, ren_mw, df_dc)
        cap1 == IF Gt(b1.capacity, Zero) /\ PyNe(cap, NaN)
                THEN PyMax(cap, b1.capacity) ELSE cap
    IN  IF (idx + 1) % WindowLen = 0 /\ Lt(net1, Zero)
        THEN [b |-> b1, battery_cap |-> NaN, daily_net_load |-> net1, broke |-> TRUE]
        ELSE [b |-> b1, battery_cap |-> cap1, daily_net_load |-> net1, broke |-> FALSE]

\* the loop body for row idx (0-based): the locals after it, and whether it
\* left the loop by break
finder_step(bat, cap, net, idx, ren_mw, df_dc) ==
    LET net1 == Add(net, Sub(ren_mw, df_dc))
        b1 == IF Gt(df_dc, ren_mw) THEN finder_deficit(bat, ren_mw, df_dc)
              ELSE finder_surplus(bat, ren_mw, df_dc)
        cap1 == IF Gt(b1.capacity, Zero) /\ PyNe(cap, NaN)
                THEN PyMax(cap, b1.capacity) ELSE cap
    IN  IF (idx + 1) % WindowLen = 0
        THEN IF Lt(net1, Zero)
             THEN [b |-> b1, battery_cap |-> NaN, daily_net_load |-> net1,
                   broke |-> TRUE]
             ELSE [b |-> b1, battery_cap |-> cap1, daily_net_load |-> Zero,
                   broke |-> FALSE]
        ELSE [b |-> b1, battery_cap |-> cap1, daily_net_load |-> net1,
              broke |-> FALSE]

InitFinder ==
    /\ df_ren = <<>> /\ df_dc_pow = <<>>
    /\ b = Battery(Zero, Zero) /\ b0 = b
    /\ battery_cap = Zero /\ daily_net_load = Zero
    /\ window = NoWindow
    /\ pc = "loop" /\ i = 0 /\ ret = None
    /\ op = [name |-> "row", arg |-> <<Zero, Zero>>, before |-> Zero,
            capacity |-> Zero]
    /\ NoSizer /\ NoApply /\ NoRun2

\* a series of n steps, each step the pair ren, dc
Const(n, ren, dc) == << [k \in 1..n |-> ren], [k \in 1..n |-> dc] >>

\* one window of pure deficit: the check at its end gives up
LongDeficit == Const(WindowLen, FromInt(0), FromInt(1))

\* one window that alternates surplus and deficit, and a step of deficit
LongBalanced ==
    << [k \in 1..(WindowLen + 1) |->
           IF k % 2 = 1 /\ k <= WindowLen THEN FromInt(1) ELSE FromInt(0)],
       [k \in 1..(WindowLen + 1) |->
           IF k % 2 = 1 /\ k <= WindowLen THEN FromInt(0) ELSE FromInt(1)] >>

\* the series handed to the function whole: renewable in whole MWh and draw in
\* half MWh over at most MaxLen steps, the examples, and two long series
FinderSeries ==
    UNION {[1..n -> Vals] \X [1..n -> Loads] : n \in 0..MaxLen}
        \cup {Example8, Example9, LongDeficit, LongBalanced}

\* the same function on a series held in df_ren, df_dc_pow
InitFinderSeries ==
    /\ \E sp \in FinderSeries : df_ren = sp[1] /\ df_dc_pow = sp[2]
    /\ b = Battery(Zero, Zero) /\ b0 = b
    /\ battery_cap = Zero /\ daily_net_load = Zero
    /\ window = NoWindow
    /\ pc = "loop" /\ i = 0 /\ ret = None
    /\ op = [name |-> "series", arg |-> <<Zero, Zero>>, before |-> Zero,
            capacity |-> Zero]
    /\ NoSizer /\ NoApply /\ NoRun2

\* the number of rows the loop reads
RowLimit == IF op.name = "series" THEN Len(df_dc_pow) ELSE MaxRows

\* the rows the series may hold at index i
Rows ==
    IF op.name = "series"
    THEN {<<df_ren[k], df_dc_pow[k]>> : k \in {i + 1} \cap DOMAIN df_dc_pow}
    ELSE IF i % BlockLen = 0 THEN Vals \X Vals ELSE {op.arg}

\* the history: op holds the row read last and the battery's current_load and
\* capacity before it; window holds the sum of renewable - draw over the rows
\* of the window being read and the number of complete windows whose sum was
\* negative
WindowAfter(ren_mw, df_dc) ==
    LET sum == Add(window.sum, Sub(ren_mw, df_dc))
    IN  IF (i + 1) % WindowLen = 0
        THEN [sum |-> Zero,
              negative |-> window.negative + (IF Lt(sum, Zero) THEN 1 ELSE 0)]
        ELSE [sum |-> sum, negative |-> window.negative]

FinderUnchanged ==
    UNCHANGED <<df_ren, df_dc_pow, max_bsize, b0, l, u, med, tot_non_ren_mw,
                run2>>

\* one pass through the loop body that stays in the loop
FinderRow ==
    \E row \in Rows :
        LET s == finder_step(b, battery_cap, daily_net_load, i, row[1], row[2])
        IN  /\ pc = "loop" /\ i < RowLimit
            /\ ~s.broke
            /\ b' = s.b
            /\ battery_cap' = s.battery_cap
            /\ daily_net_load' = s.daily_net_load
            /\ i' = i + 1
            /\ op' = [op EXCEPT !.arg = row, !.before = b.current_load,
                                !.capacity = b.capacity]
            /\ window' = WindowAfter(row[1], row[2])
            /\ UNCHANGED <<pc, ret>> /\ FinderUnchanged

\* one pass through the loop body that ends in break
FinderBreak ==
    \E row \in Rows :
        LET s == finder_step(b, battery_cap, daily_net_load, i, row[1], row[2])
        IN  /\ pc = "loop" /\ i < RowLimit
            /\ s.broke
            /\ b' = s.b
            /\ battery_cap' = s.battery_cap
            /\ daily_net_load' = s.daily_net_load
            /\ pc' = "break"
            /\ op' = [op EXCEPT !.arg = row, !.before = b.current_load,
                                !.capacity = b.capacity]
            /\ window' = WindowAfter(row[1], row[2])
            /\ UNCHANGED <<i, ret>> /\ FinderUnchanged

\* the series has i rows: the loop is over
FinderReturn ==
    /\ pc = "loop"
    /\ op.name = "series" => i >= Len(df_dc_pow)
    /\ ret' = battery_cap /\ pc' = "done"
    /\ UNCHANGED <<b, i, battery_cap, daily_net_load, op, window>>
    /\ FinderUnchanged

FinderReturnAfterBreak ==
    /\ pc = "break"
    /\ ret' = battery_cap /\ pc' = "done"
    /\ UNCHANGED <<b, i, battery_cap, daily_net_load, op, window>>
    /\ FinderUnchanged

NextFinder == FinderRow \/ FinderBreak \/ FinderReturn \/ FinderReturnAfterBreak

SpecFinder == InitFinder /\ [][NextFinder]_vars

SpecFinderSeries == InitFinderSeries /\ [][NextFinder]_vars

-----------------------------------------------------------------------------
(* Claims about the battery objects *)

\* 0.2 MWh
Fifth == Dec(1, 5)

\* |x|
Abs(x) == IF x = NaN THEN NaN ELSE [x EXCEPT !.neg = FALSE]

\* the whole part of a double 0 <= x < 2^28
Floor(x) ==
    IF IsZero(x) \/ x.neg \/ x.exp < -80 THEN 0
    ELSE ShiftRight(<<0, 0, x.hi, x.lo>>, 0 - x.exp)[4]

\* 2^-52, the distance from 1 to the next double
Epsilon == Div(Div(FromInt(1), FromInt(2^26)), FromInt(2^26))

\* the greatest double below x > 0; 0 for x = 0
Pred(x) ==
    IF IsZero(x) THEN Zero
    ELSE IF x.lo > 0 THEN [x EXCEPT !.lo = x.lo - 1]
    ELSE IF x.hi > 2^24 THEN [x EXCEPT !.hi = x.hi - 1, !.lo = Word - 1]
    ELSE [x EXCEPT !.exp = x.exp - 1, !.hi = 2^25 - 1, !.lo = Word - 1]

\* x >= 0 is a multiple of 2^-10 below 2^18: sums and differences of such
\* amounts are exact in doubles
OnBinaryGrid(x) ==
    LET v == Mul(x, FromInt(2^10))
    IN  ~x.neg /\ FromInt(Floor(v)) = v

\* every value of both series is on the binary grid
SeriesOnBinaryGrid ==
    \A k \in 1..Len(df_dc_pow) :
        OnBinaryGrid(df_ren[k]) /\ OnBinaryGrid(df_dc_pow[k])

\* C2: for a lossless Battery built with capacity >= 0 and
\* 0 <= current_load <= capacity, after every call in any sequence of
\* charge(x), discharge(x) and find_and_init_capacity(x) with x >= 0 the state
\* satisfies 0 <= current_load <= capacity.
C2_LoadWithinCapacity ==
    Le(Zero, b.current_load) /\ Le(b.current_load, b.capacity)

\* a charge that overshot the capacity and was clamped to it
C2_Witness ==
    /\ op.name = "charge"
    /\ Gt(Add(op.before, op.arg), b.capacity)
    /\ Lt(op.before, b.capacity)
    /\ b.current_load = b.capacity

\* C3 as stated: discharge(output_load) on a lossless Battery never returns
\* more than output_load; it returns exactly output_load when current_load >=
\* output_load before the call, and otherwise returns exactly the load held
\* before the call and leaves current_load at 0.
C3_DischargeReturn ==
    op.name = "discharge" =>
        /\ Le(ret, op.arg)
        /\ Ge(op.before, op.arg) =>
               ret = op.arg /\ b.current_load = Sub(op.before, op.arg)
        /\ Lt(op.before, op.arg) => ret = op.before /\ b.current_load = Zero

\* C3 amended: the return is never more than output_load; it is output_load
\* when current_load >= output_load before the call; otherwise current_load
\* is left at 0 and the return is output_load + (current_load - output_load)
\* evaluated in doubles: never negative, within 2^-52 * output_load of the
\* load held before the call, and equal to it when that load and output_load
\* are multiples of 2^-10 (the difference and the sum are then exact).
C3_DischargeReturnUpToRounding ==
    op.name = "discharge" =>
        /\ Le(ret, op.arg)
        /\ Ge(op.before, op.arg) =>
               ret = op.arg /\ b.current_load = Sub(op.before, op.arg)
        /\ Lt(op.before, op.arg) =>
               /\ b.current_load = Zero
               /\ Ge(ret, Zero)
               /\ Le(Abs(Sub(ret, op.before)), Mul(Epsilon, op.arg))
               /\ (OnBinaryGrid(op.before) /\ OnBinaryGrid(op.arg)) =>
                      ret = op.before

\* 0.5 drawn from a battery that held 0.1: the battery is emptied and
\* 0.09999999999999998 is reported
C3_Witness ==
    /\ op.name = "discharge"
    /\ Lt(Zero, op.before) /\ Lt(op.before, op.arg)
    /\ ret # op.before /\ b.current_load = Zero

\* C9: for a Battery2 with the default coefficients built with capacity >= 0
\* and 0 <= current_load <= capacity, after any sequence of charge(x) and
\* discharge(x) with x >= 0, calc_max_charge() >= 0 and calc_max_discharge() >= 0,
\* and current_load stays in [0, capacity] although nothing clamps it.
C9_RateLimitsNonNegative ==
    /\ Ge(calc_max_charge(b), Zero)
    /\ Ge(calc_max_discharge(b), Zero)
    /\ Le(Zero, b.current_load) /\ Le(b.current_load, b.capacity)

\* a discharge cut by the rate limit: less than the request was returned
C9_Witness ==
    /\ op.name = "discharge"
    /\ Lt(Zero, ret) /\ Lt(ret, op.arg)
    /\ Lt(Zero, b.current_load) /\ Lt(b.current_load, b.capacity)

\* C11 as stated: for a lossless Battery with 0 <= current_load <= capacity
\* and any x >= 0 with current_load + x <= capacity, charge(x) followed
\* immediately by discharge(x) leaves current_load equal to its value before
\* the charge, leaves capacity unchanged, and the discharge returns x.
C11_ChargeDischargeRoundTrip ==
    (/\ b.kind = "Battery"
     /\ op.name = "discharge" /\ op.prev.name = "charge"
     /\ op.prev.arg = op.arg
     /\ Le(Zero, op.prev.before)
     /\ Le(Add(op.prev.before, op.prev.arg), op.prev.capacity))
        => /\ b.current_load = op.prev.before
           /\ b.capacity = op.prev.capacity
           /\ ret = op.arg

\* C11 amended: under the same conditions the discharge returns x, capacity
\* is unchanged, and current_load ends at (current_load + x) - x evaluated in
\* doubles: within 2^-52 * (current_load + x) of its value before the charge,
\* and equal to it when current_load and x are multiples of 2^-10 (the sum
\* is then exact).
C11_RoundTripUpToRounding ==
    (/\ b.kind = "Battery"
     /\ op.name = "discharge" /\ op.prev.name = "charge"
     /\ op.prev.arg = op.arg
     /\ Le(Zero, op.prev.before)
     /\ Le(Add(op.prev.before, op.prev.arg), op.prev.capacity))
        => /\ ret = op.arg
           /\ b.capacity = op.prev.capacity
           /\ b.current_load = Sub(Add(op.prev.before, op.arg), op.arg)
           /\ Le(Abs(Sub(b.current_load, op.prev.before)),
                 Mul(Epsilon, Add(op.prev.before, op.arg)))
           /\ (OnBinaryGrid(op.prev.before) /\ OnBinaryGrid(op.arg)) =>
                  b.current_load = op.prev.before

\* 0.5 charged into the headroom of a battery that held 0.1 and drawn again:
\* the load comes back as 0.09999999999999998
C11_Witness ==
    /\ b.kind = "Battery"
    /\ op.name = "discharge" /\ op.prev.name = "charge"
    /\ op.prev.arg = op.arg /\ Gt(op.arg, Zero)
    /\ Lt(Zero, op.prev.before)
    /\ Le(Add(op.prev.before, op.prev.arg), op.prev.capacity)
    /\ op.before = Add(op.prev.before, op.prev.arg)
    /\ ret = op.arg
    /\ b.current_load # op.prev.before

\* the least k with (x*eff_d + 0.1*k - lower_lim_v*capacity) /
\* (lower_lim_u + eff_d) >= x, for a battery of the given capacity
LeastK(self, capacity, x) ==
    LET enough(k) ==
            Ge(Div(Sub(Add(Mul(x, self.eff_d), Mul(Tenth, FromInt(k))),
                       Mul(self.lower_lim_v, capacity)),
                   Add(self.lower_lim_u, self.eff_d)),
               x)
    IN  CHOOSE k \in 0..(10 * MaxVal + 1) :
            enough(k) /\ \A j \in 0..(k - 1) : ~enough(j)

\* C17: Battery2.find_and_init_capacity(input_load) with the default
\* coefficients and input_load >= 0 terminates, leaves current_load unchanged,
\* and increases capacity by exactly input_load*eff_d + 0.1*k where k is the
\* least non-negative integer such that (input_load*eff_d + 0.1*k -
\* lower_lim_v*capacity) / (lower_lim_u + eff_d) >= input_load; on return the
\* battery can discharge at least input_load in one step, i.e. a following
\* discharge(input_load) returns input_load.
C17_GrowsUntilDischargeable ==
    /\ (b.kind = "Battery2" /\ op.name = "find_and_init_capacity") =>
          /\ ret = None
          /\ b.current_load = op.before
          /\ b.capacity =
                 Add(Add(op.capacity, Mul(op.arg, b.eff_d)),
                     Mul(Tenth, FromInt(LeastK(b, b.capacity, op.arg))))
    /\ (/\ b.kind = "Battery2"
        /\ op.name = "discharge" /\ op.prev.name = "find_and_init_capacity"
        /\ op.prev.arg = op.arg)
          => ret = op.arg

-----------------------------------------------------------------------------
(* Claims about sim_battery_247 *)

\* the sum of draw - renewable over steps s..t (1-based, inclusive)
RECURSIVE RunDeficit(_, _, _, _)
RunDeficit(ren, dc, s, t) ==
    IF s > t THEN Zero
    ELSE Add(RunDeficit(ren, dc, s, t - 1), Sub(dc[t], ren[t]))

\* the largest sum of draw - renewable over a contiguous run of steps
MaxCumDeficit(ren, dc) ==
    LET sums == {RunDeficit(ren, dc, s, t) : s \in 1..Len(dc), t \in 1..Len(dc)}
    IN  IF Len(dc) = 0 THEN Zero
        ELSE CHOOSE m \in sums : \A x \in sums : Le(x, m)

\* C4 as stated: sim_battery_247 returns True for every pair of series when
\* called with a lossless Battery whose capacity is greater than the maximum
\* cumulative deficit, whatever current_load the battery was built with,
\* the constructor default 0 included.
C4_AnyStartLoad ==
    (/\ pc = "done"
     /\ b0.kind = "Battery"
     /\ Gt(b0.capacity, MaxCumDeficit(df_ren, df_dc_pow)))
        => ret = TRUE

\* C4 amended: sim_battery_247 returns True for every pair of series when
\* called with a lossless Battery that starts full (current_load = capacity)
\* and whose capacity is greater than the maximum cumulative deficit, when
\* the capacity and all values of the series are multiples of 2^-10 (every
\* sum the simulation forms is then exact).
C4_FullStartExact ==
    (/\ pc = "done"
     /\ b0.kind = "Battery"
     /\ b0.current_load = b0.capacity
     /\ OnBinaryGrid(b0.capacity) /\ SeriesOnBinaryGrid
     /\ Gt(b0.capacity, MaxCumDeficit(df_ren, df_dc_pow)))
        => ret = TRUE

\* a full battery that met two deficit steps with a surplus step between them
C4_Witness ==
    /\ pc = "done" /\ ret = TRUE
    /\ b0.kind = "Battery" /\ b0.current_load = b0.capacity
    /\ OnBinaryGrid(b0.capacity) /\ SeriesOnBinaryGrid
    /\ Gt(b0.capacity, MaxCumDeficit(df_ren, df_dc_pow))
    /\ Len(df_dc_pow) = 3
    /\ Lt(df_ren[1], df_dc_pow[1]) /\ Gt(df_ren[2], df_dc_pow[2])
    /\ Lt(df_ren[3], df_dc_pow[3])
    /\ Lt(b.current_load, b.capacity)

\* C5: sim_battery_247 returns False for every series with at least one step
\* where renewable < draw when called with a zero-capacity battery of either
\* model; surplus before the deficit is not stored.
C5_ZeroCapacityFails ==
    (/\ pc = "done"
     /\ b0.capacity = Zero /\ b0.current_load = Zero
     /\ \E k \in 1..Len(df_dc_pow) : Lt(df_ren[k], df_dc_pow[k]))
        => ret = FALSE

\* a zero-capacity Battery2 offered a surplus and then a deficit
C5_Witness ==
    /\ pc = "done" /\ ret = FALSE
    /\ b0.kind = "Battery2" /\ b0.capacity = Zero /\ b0.current_load = Zero
    /\ Len(df_dc_pow) >= 2 /\ i = 1
    /\ Gt(df_ren[1], df_dc_pow[1]) /\ Lt(df_ren[2], df_dc_pow[2])

\* step k (1-based) applied to a battery: a surplus is charged, anything else
\* is discharged
Applied(bat, k) ==
    IF Gt(Sub(df_ren[k], df_dc_pow[k]), Zero)
    THEN charge(bat, Sub(df_ren[k], df_dc_pow[k])).b
    ELSE discharge(bat, Sub(df_dc_pow[k], df_ren[k])).b

\* the battery the caller handed in after steps 1..k, each applied in order
RECURSIVE AfterSteps(_)
AfterSteps(k) == IF k = 0 THEN b0 ELSE Applied(AfterSteps(k - 1), k)

\* step k is a shortfall: no surplus, and the discharge returns less than asked
Shortfall(k) ==
    /\ Le(Sub(df_ren[k], df_dc_pow[k]), Zero)
    /\ Lt(discharge(AfterSteps(k - 1), Sub(df_dc_pow[k], df_ren[k])).ret,
          Sub(df_dc_pow[k], df_ren[k]))

\* C14: sim_battery_247 processes the steps in index order and returns False
\* at the first step i with renewable[i] - draw[i] <= 0 at which the battery's
\* discharge returns less than draw[i] - renewable[i]; no later step is applied
\* to the battery, the battery keeps the state left by that failed discharge
\* (no rollback), and True is returned only after every step has been
\* processed without such a shortfall.  A step with net load exactly 0 takes
\* the discharge branch with amount 0 and never fails.
C14_FailsAtFirstShortfall ==
    /\ pc = "sim" =>
          /\ b = AfterSteps(i)
          /\ \A k \in 1..i : ~Shortfall(k)
    /\ (pc = "done" /\ ret = FALSE) =>
          /\ i < Len(df_dc_pow)
          /\ \A k \in 1..i : ~Shortfall(k)
          /\ Shortfall(i + 1)
          /\ Lt(Sub(df_ren[i + 1], df_dc_pow[i + 1]), Zero)
          /\ b = discharge(AfterSteps(i),
                           Sub(df_dc_pow[i + 1], df_ren[i + 1])).b
    /\ (pc = "done" /\ ret = TRUE) =>
          /\ i = Len(df_dc_pow)
          /\ \A k \in 1..i : ~Shortfall(k)
          /\ b = AfterSteps(i)
    /\ pc \in {"sim", "done"} =>
          \A k \in 1..Len(df_dc_pow) :
              (k <= i + 1 /\ df_ren[k] = df_dc_pow[k]) => ~Shortfall(k)

\* a run that passed a step of net load 0, then fell short with a step still
\* to come, and left the battery as the failed discharge drained it
C14_Witness ==
    /\ pc = "done" /\ ret = FALSE
    /\ i = 1 /\ Len(df_dc_pow) = 3
    /\ df_ren[1] = df_dc_pow[1]
    /\ Gt(AfterSteps(1).current_load, Zero)
    /\ Lt(b.current_load, AfterSteps(1).current_load)
    /\ b # AfterSteps(3)

\* C15: feasibility is monotone in capacity for both battery models with
\* default coefficients: for fixed aligned series and capacities 0 <= c <= c',
\* if sim_battery_247 returns True on a fresh battery (c, c) started full, it
\* returns True on a fresh battery (c', c') started full; at every step the
\* larger battery's current_load is at least the smaller one's.
C15_FeasibilityMonotone ==
    /\ pc = "pair" =>
          (~run2.failed /\ Ge(run2.b.current_load, b.current_load))
    /\ (pc = "done" /\ ret = TRUE) =>
          (~run2.failed /\ Ge(run2.b.current_load, b.current_load))

\* two Battery2 of different capacities that both met a deficit, a surplus and
\* a second deficit, the larger one ending with the greater load
C15_Witness ==
    /\ pc = "done" /\ ret = TRUE /\ ~run2.failed
    /\ b.kind = "Battery2" /\ Lt(Zero, b.capacity)
    /\ Lt(b.capacity, run2.b.capacity)
    /\ Len(df_dc_pow) = 3
    /\ Lt(df_ren[1], df_dc_pow[1]) /\ Gt(df_ren[2], df_dc_pow[2])
    /\ Lt(df_ren[3], df_dc_pow[3])
    /\ Gt(run2.b.current_load, b.current_load)

-----------------------------------------------------------------------------
(* Claims about the binary-search sizers *)

\* capacities are compared on a grid of 1/32 MWh, which holds every midpoint
\* the searches reach from the bounds in Bsizes
GridStep == Dec(1, 32)

Grid(top) == {Mul(FromInt(k), GridStep) : k \in 0..Floor(Div(top, GridStep))}

\* whether the series can be met by a fresh battery of capacity c started full
Feasible(fn, c) == sim_battery_247(df_ren, df_dc_pow, Fresh(fn, c))

\* the least feasible double in (lo, hi], lo infeasible and hi feasible, by
\* bisection down to two neighbouring doubles
RECURSIVE Bisect(_, _, _)
Bisect(fn, lo, hi) ==
    LET mid == Div(Add(lo, hi), FromInt(2))
    IN  IF mid = lo \/ mid = hi THEN hi
        ELSE IF Feasible(fn, mid) THEN Bisect(fn, lo, mid)
        ELSE Bisect(fn, mid, hi)

\* the least feasible capacity up to top: the first feasible point of the
\* grid, then the least feasible double of the grid cell below it
MinCapacity(fn, top) ==
    LET feas == {c \in Grid(top) \cup {top} : Feasible(fn, c)}
        first == CHOOSE c \in feas : \A x \in feas : Le(c, x)
        below == {c \in Grid(top) : Lt(c, first)}
        last == CHOOSE c \in below : \A x \in below : Le(x, c)
    IN  IF feas = {} THEN NaN
        ELSE IF below = {} THEN first
        ELSE Bisect(fn, last, first)

\* C1: for either sizer, whenever the returned value r is not the infeasible
\* sentinel, sim_battery_247 on a fresh battery (r, r) returns True and
\* sim_battery_247 on a fresh battery (r - 0.2, r - 0.2) returns False
\* (read for r >= 0.2: no battery has a negative capacity).
C1_ResultFeasibleAndTight ==
    (pc = "done" /\ ret # NaN) =>
        /\ Feasible(op.name, ret)
        /\ Ge(ret, Fifth) => ~Feasible(op.name, Sub(ret, Fifth))

\* C6: for either sizer, if sim_battery_247 fails for every fresh battery
\* started full with capacity in [0, max_bsize], the sizer returns the
\* infeasible sentinel and never a number, also when max_bsize <= 0.1 and the
\* loop body never runs.
C6_InfeasibleGivesSentinel ==
    (/\ pc = "done"
     /\ ~Feasible(op.name, max_bsize)
     /\ \A c \in Grid(max_bsize) : ~Feasible(op.name, c))
        => ret = NaN

\* example 9 of the specification: renewable [0,0,0], draw [1,1,1], bound 0.5
C6_Witness ==
    /\ pc = "done" /\ ret = NaN
    /\ <<df_ren, df_dc_pow>> = Example9 /\ max_bsize = Half
    /\ op.name = "b2_sim"
    /\ med # Unbound /\ l = med
    /\ \A c \in Grid(max_bsize) : ~Feasible(op.name, c)

\* the distance C8 allows between the result and the least feasible capacity
ClaimedDistance == Dec(1, 10)

\* C8: whenever calculate_247_battery_capacity_b1_sim returns a number r, r
\* differs by at most 0.1 from the least capacity c for which sim_battery_247
\* succeeds on a fresh Battery(c, c); for renewable [10,0,10], draw [5,5,5] a
\* returned number is within 0.1 of 5.  (The least feasible capacity is looked
\* for up to r + 0.1: one further up would differ from r by more than 0.1.)
C8_ResultNearMinimum ==
    (pc = "done" /\ op.name = "b1_sim" /\ ret # NaN) =>
        /\ LET cmin == MinCapacity("b1_sim", Add(ret, ClaimedDistance))
           IN  /\ cmin # NaN
               /\ Le(Sub(ret, cmin), ClaimedDistance)
               /\ Le(Sub(cmin, ret), ClaimedDistance)
        /\ <<df_ren, df_dc_pow>> = Example8 =>
               /\ Le(Sub(ret, FromInt(5)), ClaimedDistance)
               /\ Le(Sub(FromInt(5), ret), ClaimedDistance)

\* example 8 searched under a bound of 6: a number near 5 that is not 5
C8_Witness ==
    /\ pc = "done" /\ op.name = "b1_sim"
    /\ <<df_ren, df_dc_pow>> = Example8 /\ max_bsize = FromInt(6)
    /\ ret # NaN /\ ret # FromInt(5)
    /\ MinCapacity("b1_sim", max_bsize) = FromInt(5)

\* C12: for either binary-search sizer, the infeasible sentinel is returned
\* only when no feasible capacity exists within the bound: if sim_battery_247
\* succeeds for some fresh full-start battery with capacity c in (0, max_bsize]
\* (in particular for c = max_bsize itself), the sizer returns a number and not
\* the sentinel.
C12_SentinelOnlyWhenInfeasible ==
    (/\ pc = "done"
     /\ \E c \in Grid(max_bsize) \cup {max_bsize} :
            Gt(c, Zero) /\ Feasible(op.name, c))
        => ret # NaN

\* 2^n as a double
Pow2(n) == [neg |-> FALSE, exp |-> n - 52, hi |-> 2^24, lo |-> 0]

\* the number of halvings that bring an interval of width w to 0.1 or less:
\* the least n with w / 2^n <= 0.1 (w is below 2^(w.exp + 53) and 0.1 is
\* above 2^-4)
Halvings(w) ==
    IF ~Gt(w, Tolerance) THEN 0
    ELSE CHOOSE n \in 1..(w.exp + 57) :
             /\ ~Gt(Div(w, Pow2(n)), Tolerance)
             /\ Gt(Div(w, Pow2(n - 1)), Tolerance)

\* the simulations a search under the bound runs at most: the zero check,
\* one for each halving, and one more where a rounded midpoint leaves the
\* last interval a little over 0.1
MaxRuns(bound) == 2 + Halvings(bound)

\* x and y differ by at most 2^-40 of the bound
Near(x, y) ==
    Le(Abs(Sub(x, y)), Div(Div(max_bsize, FromInt(2^20)), FromInt(2^20)))

\* the search so far: the interval lies in [0, max_bsize]; the last
\* simulation found an interval wider than 0.1, took its midpoint and moved
\* exactly one end to it; every simulation after the zero check has halved
\* the interval, up to the rounding of the midpoint; and the count of
\* simulations is within the bound max_bsize and 0.1 give
SearchHalves ==
    /\ Le(Zero, l) /\ Le(l, u) /\ Le(u, max_bsize)
    /\ op.arg >= 1
    /\ Near(Mul(Sub(u, l), Pow2(op.arg - 1)), max_bsize)
    /\ op.arg > 1 =>
           /\ Gt(Sub(op.u, op.l), Tolerance)
           /\ med = Div(Add(op.u, op.l), FromInt(2))
           /\ \/ u = med /\ l = op.l
              \/ l = med /\ u = op.u
    /\ op.arg <= MaxRuns(max_bsize)

\* the number of steps the function can still take is at most Remaining,
\* which every step lowers: no run is infinite
RemainingAt(at, runs, bound) ==
    IF at = "zero_check" THEN 2 + MaxRuns(bound)
    ELSE IF at = "search" THEN 1 + MaxRuns(bound) - runs
    ELSE 0

Remaining == RemainingAt(pc, op.arg, max_bsize)

RemainingNext == RemainingAt(pc', op.arg', max_bsize')

\* C16: each binary-search sizer terminates for every finite max_bsize and
\* finite series: the search loop halves u - l on every iteration (exactly
\* one of u, l is set to the midpoint; the halving is read up to the rounding
\* of the midpoint), keeps 0 <= l <= u <= max_bsize, and exits once
\* u - l <= 0.1, so the number of simulator runs is bounded by a function of
\* max_bsize and the tolerance 0.1 alone.
C16_SearchHalvesAndEnds ==
    /\ [](pc = "search" => SearchHalves)
    /\ []((pc = "done" /\ l # Unbound) =>
              (SearchHalves /\ ~Gt(Sub(u, l), Tolerance)))
    /\ [][RemainingNext < Remaining /\ Remaining > 0]_vars

-----------------------------------------------------------------------------
(* Claims about apply_battery *)

\* the sum of max(0, draw - renewable) over the first k steps
RECURSIVE PosDeficitSum(_)
PosDeficitSum(k) ==
    IF k = 0 THEN Zero
    ELSE Add(Max(Zero, Sub(df_dc_pow[k], df_ren[k])), PosDeficitSum(k - 1))

\* C7: apply_battery(0, df_ren, df_dc_pow) returns exactly the sum over all
\* steps of max(0, draw - renewable): the zero-capacity Battery2 delivers 0 on
\* every discharge and its current_load stays 0 through every step.
C7_ZeroCapacityCoversNothing ==
    (pc \in {"apply", "done"} /\ b0.capacity = Zero) =>
        /\ b.current_load = Zero
        /\ tot_non_ren_mw = PosDeficitSum(i)
        /\ pc = "done" => ret = PosDeficitSum(Len(df_dc_pow))

\* a zero-capacity run over a surplus step followed by a deficit step
C7_Witness ==
    /\ pc = "done" /\ b0.capacity = Zero
    /\ Len(df_dc_pow) >= 2
    /\ Gt(df_ren[1], df_dc_pow[1]) /\ Lt(df_ren[2], df_dc_pow[2])
    /\ ret = PosDeficitSum(Len(df_dc_pow)) /\ Gt(ret, Zero)

\* C19 as stated: for every battery_capacity >= 0 and every pair of aligned
\* non-negative series, apply_battery returns a value u with 0 <= u <= sum
\* over steps of max(0, draw[i] - renewable[i]): on every deficit step the
\* amount returned by Battery2.discharge(gap) lies in [0, gap], so the
\* uncovered total never decreases from step to step and never exceeds the
\* total deficit.
C19_UncoveredWithinDeficit ==
    /\ [](pc \in {"apply", "done"} =>
             /\ Le(Zero, tot_non_ren_mw)
             /\ Le(tot_non_ren_mw, PosDeficitSum(i))
             /\ pc = "done" =>
                    (Le(Zero, ret) /\ Le(ret, PosDeficitSum(Len(df_dc_pow)))))
    /\ [][IF pc = "apply" /\ i < Len(df_dc_pow)
          THEN /\ Ge(tot_non_ren_mw', tot_non_ren_mw)
               /\ Le(tot_non_ren_mw',
                     Add(tot_non_ren_mw,
                         Max(Zero, Sub(df_dc_pow[i + 1], df_ren[i + 1]))))
               /\ Gt(df_dc_pow[i + 1], df_ren[i + 1]) =>
                      LET gap == Sub(df_dc_pow[i + 1], df_ren[i + 1])
                      IN  /\ Le(Zero, discharge(b, gap).ret)
                          /\ Le(discharge(b, gap).ret, gap)
          ELSE tot_non_ren_mw' = tot_non_ren_mw]_vars

\* C19 amended: the same bounds on the result and on the amount returned;
\* the uncovered total goes from tot to (tot + gap) - returned evaluated in
\* doubles, so it never exceeds the total deficit and rises by at most gap,
\* but where the battery covers the whole gap it can fall by a rounding
\* error, at most 2^-51 * (tot + gap).
C19_UncoveredUpToRounding ==
    /\ [](pc \in {"apply", "done"} =>
             /\ Le(Zero, tot_non_ren_mw)
             /\ Le(tot_non_ren_mw, PosDeficitSum(i))
             /\ pc = "done" =>
                    (Le(Zero, ret) /\ Le(ret, PosDeficitSum(Len(df_dc_pow)))))
    /\ [][IF pc = "apply" /\ i < Len(df_dc_pow)
          THEN LET gap == Max(Zero, Sub(df_dc_pow[i + 1], df_ren[i + 1]))
                   sum == Add(tot_non_ren_mw, gap)
               IN  /\ Ge(tot_non_ren_mw',
                         Sub(tot_non_ren_mw,
                             Mul(Mul(FromInt(2), Epsilon), sum)))
                   /\ Le(tot_non_ren_mw', sum)
                   /\ Gt(gap, Zero) =>
                          /\ Le(Zero, discharge(b, gap).ret)
                          /\ Le(discharge(b, gap).ret, gap)
                          /\ tot_non_ren_mw' = Sub(sum, discharge(b, gap).ret)
          ELSE tot_non_ren_mw' = tot_non_ren_mw]_vars

\* a battery that covered part of the deficit: the first draw in full, the
\* second only as far as the rate limit let it
C19_Witness ==
    /\ pc = "done" /\ Gt(b0.capacity, Zero)
    /\ Len(df_dc_pow) >= 2
    /\ Lt(df_ren[1], df_dc_pow[1]) /\ Lt(df_ren[2], df_dc_pow[2])
    /\ Lt(Zero, ret) /\ Lt(ret, Sub(df_dc_pow[2], df_ren[2]))
    /\ Lt(ret, PosDeficitSum(Len(df_dc_pow)))

-----------------------------------------------------------------------------
(* Claims about calculate_247_battery_capacity *)

\* C10: calculate_247_battery_capacity returns the infeasible sentinel if and
\* only if some complete 72-step window (steps 72k .. 72k+71) has a negative
\* sum of renewable - draw; it stops at the end of the first such window, no
\* later step replaces the sentinel by a number, and a trailing partial window
\* or a series shorter than 72 steps never produces the sentinel.
C10_SentinelIffNegativeWindow ==
    /\ pc = "loop" => battery_cap # NaN /\ window.negative = 0
    /\ pc = "break" => battery_cap = NaN
    /\ pc = "done" =>
          /\ ret = NaN <=> window.negative > 0
          /\ ret = NaN => (i + 1) % WindowLen = 0 /\ window.negative = 1
          /\ ret = NaN => i + 1 >= WindowLen

\* the sentinel produced by the second window, the first one being balanced
C10_Witness ==
    /\ pc = "done" /\ ret = NaN
    /\ i = 2 * WindowLen - 1
    /\ window.negative = 1
    /\ Gt(b.capacity, Zero)

\* C13: in calculate_247_battery_capacity, at every deficit step (draw >
\* renewable) the lossless battery's capacity grows by exactly
\* max(0, deficit - load_before), where load_before is current_load before the
\* step (0 when the battery has no capacity yet), and current_load after the
\* step is max(0, load_before - deficit); at every surplus step capacity is
\* unchanged.  Capacity therefore never decreases and a non-sentinel result
\* equals the capacity at the last processed step.
C13_CapacityGrowsByShortfall ==
    LET deficit == Sub(op.arg[2], op.arg[1])
    IN  /\ i > 0 =>
              /\ Gt(deficit, Zero) =>
                     /\ b.capacity =
                            Add(op.capacity, Max(Zero, Sub(deficit, op.before)))
                     /\ b.current_load = Max(Zero, Sub(op.before, deficit))
              /\ Le(deficit, Zero) => b.capacity = op.capacity
              /\ Ge(b.capacity, op.capacity)
        /\ (pc = "done" /\ ret # NaN) => ret = b.capacity

\* a deficit larger than the load held: the battery is drained and its
\* capacity grows by the rest; the function then returns that capacity
C13_Witness ==
    /\ pc = "done" /\ ret # NaN
    /\ Lt(Zero, op.before) /\ Lt(op.before, Sub(op.arg[2], op.arg[1]))
    /\ b.capacity = Sub(Add(op.capacity, Sub(op.arg[2], op.arg[1])), op.before)
    /\ b.current_load = Zero
    /\ ret = b.capacity

\* C18 as stated: whenever calculate_247_battery_capacity returns a number C
\* for a pair of aligned non-negative series, C is exactly the minimal
\* capacity for which sim_battery_247 succeeds on a fresh lossless
\* Battery(C, C) started full: the simulation with Battery(C, C) returns True,
\* and for every 0 <= c < C the simulation with Battery(c, c) returns False
\* (c taken on the grid of 1/32 MWh and at the double next below C).
C18_ResultIsMinimalCapacity ==
    (pc = "done" /\ ret # NaN) =>
        /\ sim_battery_247(df_ren, df_dc_pow, Battery(ret, ret))
        /\ \A c \in Grid(ret) \cup {Pred(ret)} :
               Lt(c, ret) => ~sim_battery_247(df_ren, df_dc_pow, Battery(c, c))

\* C18 amended: the same when all values of both series are multiples of
\* 2^-10 (every sum the two functions form is then exact).
C18_MinimalCapacityExact ==
    (pc = "done" /\ ret # NaN /\ SeriesOnBinaryGrid) =>
        /\ sim_battery_247(df_ren, df_dc_pow, Battery(ret, ret))
        /\ \A c \in Grid(ret) \cup {Pred(ret)} :
               Lt(c, ret) => ~sim_battery_247(df_ren, df_dc_pow, Battery(c, c))

\* a series whose second deficit is met in part from the load a surplus put
\* back: the result is less than the sum of the deficits
C18_Witness ==
    /\ pc = "done" /\ ret # NaN /\ Gt(ret, Zero)
    /\ SeriesOnBinaryGrid
    /\ Len(df_dc_pow) = 3
    /\ Lt(df_ren[1], df_dc_pow[1]) /\ Gt(df_ren[2], df_dc_pow[2])
    /\ Lt(df_ren[3], df_dc_pow[3])
    /\ Gt(ret, Sub(df_dc_pow[1], df_ren[1]))
    /\ Lt(ret, Add(Sub(df_dc_pow[1], df_ren[1]), Sub(df_dc_pow[3], df_ren[3])))
    /\ sim_battery_247(df_ren, df_dc_pow, Battery(ret, ret))

====
